---- MODULE Spec2Model ----
(***************************************************************************)
(* Model of src/features/modals/NodeModal/index.tsx: the node modal of the *)
(* JSON graph viewer.  The modal shows the selected node, lets the user    *)
(* edit its primitive fields, and on Save writes a new document text to    *)
(* the file store.                                                         *)
(*                                                                         *)
(* JavaScript values are tagged records, the tag k being the first field   *)
(* in field order:                                                         *)
(*   [k |-> "undefined"], [k |-> "null"], [k |-> "hole"] (array hole),      *)
(*   [k |-> "boolean", v |-> b], [k |-> "number", v |-> n] (integers),      *)
(*   [k |-> "nan"] (the number NaN), [k |-> "string", v |-> s],             *)
(*   [k |-> "object", v |-> <<[key, val], ...>>] in property order,         *)
(*   [k |-> "array", v |-> <<elements>>, p |-> <<[key, val], ...>>] with    *)
(*   p the non-index own properties.                                       *)
(* Texts are TLA+ strings; documents are real JSON texts that are parsed   *)
(* and pretty-printed character by character.  Numbers are the integers:   *)
(* fractions, exponents, hexadecimal literals and Infinity are outside the *)
(* texts the model draws.                                                  *)
(***************************************************************************)
EXTENDS Integers, Sequences, FiniteSets, TLC

VARIABLES
    contents,   \* useFile store: the document text (getJson / setContents)
    nodeData,   \* useGraph store: the selected node, [sel, text, path]
    opened,     \* prop: the modal is shown
    editing,    \* React state (line 45)
    editText,   \* React state (line 46)
    fields,     \* React state (line 47)
    error,      \* React state (line 48): [set |-> BOOLEAN, msg |-> string]
    setCalls,   \* number of calls of setContents so far
    last,       \* the last handler that ran and its outcome
    call,       \* input of a direct call of applyEdit / the keyed branch
    res         \* result of that call

vars == <<contents, nodeData, opened, editing, editText, fields, error,
          setCalls, last, call, res>>

modalVars == <<contents, nodeData, opened, editing, editText, fields, error,
               setCalls, last>>

(***************************************************************************)
(* JavaScript values                                                       *)
(***************************************************************************)
Undefined == [k |-> "undefined"]
Null == [k |-> "null"]
Hole == [k |-> "hole"]
NaN == [k |-> "nan"]
Bool(b) == [k |-> "boolean", v |-> b]
Num(n) == [k |-> "number", v |-> n]
Str(s) == [k |-> "string", v |-> s]
Obj(pairs) == [k |-> "object", v |-> pairs]
Arr(elems) == [k |-> "array", v |-> elems, p |-> <<>>]
P(key, val) == [key |-> key, val |-> val]

\* the typeof operator
TypeOf(x) ==
    CASE x.k \in {"undefined", "hole"} -> "undefined"
      [] x.k \in {"null", "object", "array"} -> "object"
      [] x.k \in {"number", "nan"} -> "number"
      [] OTHER -> x.k

\* the i-th character of s, 1-based
Ch(s, i) == SubSeq(s, i, i)

Digits == <<"0", "1", "2", "3", "4", "5", "6", "7", "8", "9">>
IsDigit(c) == \E d \in 1..10 : Digits[d] = c
DigitVal(c) == (CHOOSE d \in 1..10 : Digits[d] = c) - 1

\* Number.prototype.toString of a non-negative integer
RECURSIVE NatToString(_)
NatToString(n) ==
    IF n < 10 THEN Digits[n + 1]
    ELSE NatToString(n \div 10) \o Digits[(n % 10) + 1]

NumToString(n) == IF n < 0 THEN "-" \o NatToString(0 - n) ELSE NatToString(n)

\* value of the digit string s[i..j], given all are digits
RECURSIVE DigitsVal(_, _, _)
DigitsVal(s, i, j) ==
    IF j < i THEN 0 ELSE DigitsVal(s, i, j - 1) * 10 + DigitVal(Ch(s, j))

AllDigits(s, i, j) == \A x \in i..j : IsDigit(Ch(s, x))

\* a canonical array index: "0", or digits without a leading zero
IsIndexKey(s) ==
    /\ Len(s) > 0
    /\ AllDigits(s, 1, Len(s))
    /\ (Len(s) > 1 => Ch(s, 1) # "0")
IndexOf(s) == DigitsVal(s, 1, Len(s))

\* ToPropertyKey of a path segment (a number or a string)
ToKey(seg) == IF seg.k = "number" THEN NumToString(seg.v) ELSE seg.v

(***************************************************************************)
(* Own properties of objects and arrays                                    *)
(***************************************************************************)
HasKey(pairs, key) == \E i \in 1..Len(pairs) : pairs[i].key = key

PairGet(pairs, key) ==
    IF HasKey(pairs, key)
    THEN pairs[CHOOSE i \in 1..Len(pairs) : pairs[i].key = key].val
    ELSE Undefined

\* number of leading pairs whose key is an array index smaller than key's
IndexKeysBelow(pairs, key) ==
    Cardinality({i \in 1..Len(pairs) :
                   IsIndexKey(pairs[i].key) /\ IndexOf(pairs[i].key) < IndexOf(key)})

\* [[Set]] on an ordinary object's property list: an existing key keeps its
\* place, a new integer key goes among the integer keys in ascending order,
\* any other new key goes last (OrdinaryOwnPropertyKeys order)
PairSet(pairs, key, val) ==
    IF HasKey(pairs, key)
    THEN [i \in 1..Len(pairs) |->
            IF pairs[i].key = key THEN P(key, val) ELSE pairs[i]]
    ELSE IF IsIndexKey(key)
    THEN LET n == IndexKeysBelow(pairs, key)
         IN SubSeq(pairs, 1, n) \o <<P(key, val)>> \o SubSeq(pairs, n + 1, Len(pairs))
    ELSE Append(pairs, P(key, val))

\* the delete operator on an own property
PairDelete(pairs, key) == SelectSeq(pairs, LAMBDA q : q.key # key)

IsNullish(x) == x.k \in {"undefined", "null", "hole"}
TypeOfNullish(x) == IF x.k = "null" THEN "null" ELSE "undefined"

\* x[key] for x neither null nor undefined.  Inherited members (methods,
\* constructor) are not keys the model draws.
Get(x, key) ==
    CASE x.k = "object" -> PairGet(x.v, key)
      [] x.k = "array" ->
            IF IsIndexKey(key) /\ IndexOf(key) < Len(x.v)
            THEN (IF x.v[IndexOf(key) + 1].k = "hole" THEN Undefined
                  ELSE x.v[IndexOf(key) + 1])
            ELSE IF key = "length" THEN Num(Len(x.v))
            ELSE PairGet(x.p, key)
      [] x.k = "string" ->
            IF IsIndexKey(key) /\ IndexOf(key) < Len(x.v)
            THEN Str(Ch(x.v, IndexOf(key) + 1))
            ELSE IF key = "length" THEN Num(Len(x.v))
            ELSE Undefined
      [] OTHER -> Undefined

Ok(val) == [st |-> "ok", val |-> val]
Throw(kind, msg) == [st |-> "throw", kind |-> kind, msg |-> msg]

\* x[key] = val in module (strict mode) code, for x not undefined: the new
\* x, or the TypeError of assigning a property of null or of a primitive.
\* On an array an index beyond the end leaves holes before it, and any
\* other key (length is not a key the model draws) is a property that
\* JSON.stringify does not serialise.
Set(x, key, val) ==
    CASE x.k = "null" -> Throw("TypeError", "Cannot set properties of null")
      [] x.k = "object" -> Ok(Obj(PairSet(x.v, key, val)))
      [] x.k = "array" ->
            IF IsIndexKey(key)
            THEN LET i == IndexOf(key)
                 IN Ok([x EXCEPT !.v =
                          [j \in 1..(IF i < Len(x.v) THEN Len(x.v) ELSE i + 1) |->
                             IF j = i + 1 THEN val
                             ELSE IF j <= Len(x.v) THEN x.v[j] ELSE Hole]])
            ELSE Ok([x EXCEPT !.p = PairSet(x.p, key, val)])
      [] OTHER -> Throw("TypeError", "Cannot create property on primitive")

\* delete x[key] for an object or array x
Delete(x, key) ==
    IF x.k = "object" THEN Obj(PairDelete(x.v, key))
    ELSE IF IsIndexKey(key) /\ IndexOf(key) < Len(x.v)
    THEN [x EXCEPT !.v[IndexOf(key) + 1] = Hole]
    ELSE [x EXCEPT !.p = PairDelete(x.p, key)]

\* Object.keys(x) for an object or array x
ObjectKeys(x) ==
    IF x.k = "object" THEN [i \in 1..Len(x.v) |-> x.v[i].key]
    ELSE LET idx == SelectSeq([i \in 1..Len(x.v) |-> i], LAMBDA i : x.v[i].k # "hole")
         IN [n \in 1..Len(idx) |-> NatToString(idx[n] - 1)]
            \o [i \in 1..Len(x.p) |-> x.p[i].key]

\* for (const seg of path) x = x[seg]: the value reached, or the TypeError
\* of reading a property of undefined or null
RECURSIVE Walk(_, _)
Walk(x, path) ==
    IF path = <<>> THEN Ok(x)
    ELSE IF IsNullish(x)
    THEN Throw("TypeError", "Cannot read properties of " \o TypeOfNullish(x))
    ELSE Walk(Get(x, ToKey(Head(path))), Tail(path))

\* root after the container reached by path was mutated into new: the
\* variable walked down root holds a reference into root
RECURSIVE Rebuild(_, _, _)
Rebuild(x, path, new) ==
    IF path = <<>> THEN new
    ELSE LET key == ToKey(Head(path))
         IN Set(x, key, Rebuild(Get(x, key), Tail(path), new)).val

(***************************************************************************)
(* JSON.stringify(value, null, 2)                                          *)
(***************************************************************************)
NL == "\n"
QUOTE == "\""
BACKSLASH == "\\"

\* QuoteJSONString: the characters escaped are the ones the model draws
RECURSIVE Escape(_, _)
Escape(s, i) ==
    IF i > Len(s) THEN ""
    ELSE LET c == Ch(s, i)
         IN (CASE c = QUOTE -> BACKSLASH \o QUOTE
               [] c = BACKSLASH -> BACKSLASH \o BACKSLASH
               [] c = NL -> BACKSLASH \o "n"
               [] OTHER -> c) \o Escape(s, i + 1)

Quote(s) == QUOTE \o Escape(s, 1) \o QUOTE

\* own enumerable properties whose value is serialised
Serialisable(pairs) == SelectSeq(pairs, LAMBDA q : q.val.k # "undefined")

RECURSIVE Ser(_, _), SerElems(_, _, _), SerProps(_, _, _)
\* SerializeJSONProperty with the current indentation ind
Ser(x, ind) ==
    CASE x.k \in {"null", "undefined", "hole", "nan"} -> "null"
      [] x.k = "boolean" -> (IF x.v THEN "true" ELSE "false")
      [] x.k = "number" -> NumToString(x.v)
      [] x.k = "string" -> Quote(x.v)
      [] x.k = "array" ->
            IF Len(x.v) = 0 THEN "[]"
            ELSE "[" \o NL \o SerElems(x.v, 1, ind \o "  ") \o NL \o ind \o "]"
      [] x.k = "object" ->
            IF Len(Serialisable(x.v)) = 0 THEN "{}"
            ELSE "{" \o NL \o SerProps(Serialisable(x.v), 1, ind \o "  ")
                 \o NL \o ind \o "}"

SerElems(elems, i, ind) ==
    ind \o Ser(elems[i], ind)
    \o (IF i = Len(elems) THEN "" ELSE "," \o NL \o SerElems(elems, i + 1, ind))

SerProps(pairs, i, ind) ==
    ind \o Quote(pairs[i].key) \o ": " \o Ser(pairs[i].val, ind)
    \o (IF i = Len(pairs) THEN "" ELSE "," \o NL \o SerProps(pairs, i + 1, ind))

\* JSON.stringify(x, null, 2) of a value other than undefined
JSONstringify(x) == Ser(x, "")

(***************************************************************************)
(* JSON.parse                                                              *)
(***************************************************************************)
Parsed(val, pos) == [ok |-> TRUE, val |-> val, pos |-> pos]
NoParse == [ok |-> FALSE, val |-> Undefined, pos |-> 0]

IsWs(c) == c \in {" ", NL, "\t", "\r"}

RECURSIVE SkipWs(_, _)
SkipWs(s, i) == IF i <= Len(s) /\ IsWs(Ch(s, i)) THEN SkipWs(s, i + 1) ELSE i

\* index of the last digit of the run of digits that starts at i
RECURSIVE DigitsEnd(_, _)
DigitsEnd(s, i) ==
    IF i + 1 <= Len(s) /\ IsDigit(Ch(s, i + 1)) THEN DigitsEnd(s, i + 1) ELSE i

\* JSON number at i (integers: "-"? int); a leading 0 ends the number
ParseNumber(s, i) ==
    LET neg == Ch(s, i) = "-"
        j == IF neg THEN i + 1 ELSE i
    IN IF j > Len(s) \/ ~IsDigit(Ch(s, j)) THEN NoParse
       ELSE LET e == IF Ch(s, j) = "0" THEN j ELSE DigitsEnd(s, j)
                n == DigitsVal(s, j, e)
            IN Parsed(Num(IF neg THEN 0 - n ELSE n), e + 1)

\* JSON string whose opening quote is before i; acc is the text so far
RECURSIVE ParseString(_, _, _)
ParseString(s, i, acc) ==
    IF i > Len(s) THEN NoParse
    ELSE LET c == Ch(s, i)
         IN CASE c = QUOTE -> Parsed(Str(acc), i + 1)
              [] c = BACKSLASH ->
                    IF i + 1 > Len(s) THEN NoParse
                    ELSE LET d == Ch(s, i + 1)
                         IN CASE d = QUOTE -> ParseString(s, i + 2, acc \o QUOTE)
                              [] d = BACKSLASH -> ParseString(s, i + 2, acc \o BACKSLASH)
                              [] d = "n" -> ParseString(s, i + 2, acc \o NL)
                              [] OTHER -> NoParse
              [] c \in {NL, "\t", "\r"} -> NoParse
              [] OTHER -> ParseString(s, i + 1, acc \o c)

Literal(s, i, word, val) ==
    IF i + Len(word) - 1 <= Len(s) /\ SubSeq(s, i, i + Len(word) - 1) = word
    THEN Parsed(val, i + Len(word))
    ELSE NoParse

RECURSIVE ParseValue(_, _), ParseElems(_, _, _), ParseMembers(_, _, _)
ParseValue(s, i0) ==
    LET i == SkipWs(s, i0)
    IN IF i > Len(s) THEN NoParse
       ELSE LET c == Ch(s, i)
            IN CASE c = "{" ->
                      LET j == SkipWs(s, i + 1)
                      IN IF j <= Len(s) /\ Ch(s, j) = "}"
                         THEN Parsed(Obj(<<>>), j + 1)
                         ELSE ParseMembers(s, j, <<>>)
                 [] c = "[" ->
                      LET j == SkipWs(s, i + 1)
                      IN IF j <= Len(s) /\ Ch(s, j) = "]"
                         THEN Parsed(Arr(<<>>), j + 1)
                         ELSE ParseElems(s, j, <<>>)
                 [] c = QUOTE -> ParseString(s, i + 1, "")
                 [] c = "-" \/ IsDigit(c) -> ParseNumber(s, i)
                 [] c = "t" -> Literal(s, i, "true", Bool(TRUE))
                 [] c = "f" -> Literal(s, i, "false", Bool(FALSE))
                 [] c = "n" -> Literal(s, i, "null", Null)
                 [] OTHER -> NoParse

\* elements of an array from i on, acc the elements so far
ParseElems(s, i, acc) ==
    LET r == ParseValue(s, i)
    IN IF ~r.ok THEN NoParse
       ELSE LET j == SkipWs(s, r.pos)
            IN IF j > Len(s) THEN NoParse
               ELSE IF Ch(s, j) = "," THEN ParseElems(s, j + 1, Append(acc, r.val))
               ELSE IF Ch(s, j) = "]" THEN Parsed(Arr(Append(acc, r.val)), j + 1)
               ELSE NoParse

\* members of an object from i on, acc the properties so far
ParseMembers(s, i, acc) ==
    LET j == SkipWs(s, i)
    IN IF j > Len(s) \/ Ch(s, j) # QUOTE THEN NoParse
       ELSE LET key == ParseString(s, j + 1, "")
            IN IF ~key.ok THEN NoParse
               ELSE LET c == SkipWs(s, key.pos)
                    IN IF c > Len(s) \/ Ch(s, c) # ":" THEN NoParse
                       ELSE LET r == ParseValue(s, c + 1)
                            IN IF ~r.ok THEN NoParse
                               ELSE LET e == SkipWs(s, r.pos)
                                        props == PairSet(acc, key.val.v, r.val)
                                    IN IF e > Len(s) THEN NoParse
                                       ELSE IF Ch(s, e) = "," THEN ParseMembers(s, e + 1, props)
                                       ELSE IF Ch(s, e) = "}" THEN Parsed(Obj(props), e + 1)
                                       ELSE NoParse

\* JSON.parse(text): the value, or the SyntaxError
JSONparse(text) ==
    LET r == ParseValue(text, 1)
    IN IF r.ok /\ SkipWs(text, r.pos) > Len(text) THEN Ok(r.val)
       ELSE Throw("SyntaxError", "Unexpected token in JSON")

(***************************************************************************)
(* Conversions of texts                                                    *)
(***************************************************************************)
UpperCase == "ABCDEFGHIJKLMNOPQRSTUVWXYZ"
LowerCase == "abcdefghijklmnopqrstuvwxyz"

LowerChar(c) ==
    IF \E i \in 1..26 : Ch(UpperCase, i) = c
    THEN Ch(LowerCase, CHOOSE i \in 1..26 : Ch(UpperCase, i) = c)
    ELSE c

\* String.prototype.toLowerCase
RECURSIVE ToLowerFrom(_, _)
ToLowerFrom(s, i) == IF i > Len(s) THEN "" ELSE LowerChar(Ch(s, i)) \o ToLowerFrom(s, i + 1)
ToLowerCase(s) == ToLowerFrom(s, 1)

\* index of the last character of s that is not white space, 0 if none
RECURSIVE LastNonWs(_, _)
LastNonWs(s, j) == IF j >= 1 /\ IsWs(Ch(s, j)) THEN LastNonWs(s, j - 1) ELSE j

\* Number(text), StringToNumber: white space is trimmed, the empty text is
\* 0, an optionally signed run of decimal digits is its value, anything
\* else (of the texts the model draws) is NaN
JSNumber(s) ==
    LET i == SkipWs(s, 1)
        j == LastNonWs(s, Len(s))
    IN IF i > j THEN Num(0)
       ELSE LET signed == Ch(s, i) \in {"-", "+"}
                d == IF signed THEN i + 1 ELSE i
            IN IF d <= j /\ AllDigits(s, d, j)
               THEN Num(IF Ch(s, i) = "-" THEN 0 - DigitsVal(s, d, j) ELSE DigitsVal(s, d, j))
               ELSE NaN

\* String(v ?? "")
StringOrEmpty(x) ==
    CASE x.k \in {"null", "undefined"} -> ""
      [] x.k = "number" -> NumToString(x.v)
      [] x.k = "boolean" -> (IF x.v THEN "true" ELSE "false")
      [] OTHER -> x.v

\* !key for a key that is a string or null
Falsy(key) == key.k = "null" \/ key.v = ""

(***************************************************************************)
(* applyEdit (lines 74-97)                                                 *)
(***************************************************************************)
ParentPath(path) == SubSeq(path, 1, Len(path) - 1)
LastSeg(path) == path[Len(path)]

ApplyEdit(rawJson, path, newValue) ==
    LET root == JSONparse(rawJson)
    IN IF root.st = "throw" THEN root
       ELSE IF Len(path) = 0 THEN Ok(JSONstringify(newValue))
       ELSE LET parent == Walk(root.val, ParentPath(path))
            IN IF parent.st = "throw" THEN parent
               ELSE IF TypeOf(parent.val) = "undefined"
               THEN Throw("Error", "Invalid path")
               ELSE LET set == Set(parent.val, ToKey(LastSeg(path)), newValue)
                    IN IF set.st = "throw" THEN set
                       ELSE Ok(JSONstringify(Rebuild(root.val, ParentPath(path), set.val)))

(***************************************************************************)
(* The keyed branch of handleSave (lines 110-159)                          *)
(***************************************************************************)
\* lines 116-125: the value of a field by its type
Coerce(f) ==
    IF f.type = "number"
    THEN LET n == JSNumber(f.value)
         IN IF n.k = "nan" THEN Str(f.value) ELSE n
    ELSE IF f.type = "boolean"
    THEN LET low == ToLowerCase(f.value)
         IN IF low = "true" THEN Bool(TRUE)
            ELSE IF low = "false" THEN Bool(FALSE)
            ELSE Str(f.value)
    ELSE IF f.type = "null" THEN Null
    ELSE Str(f.value)

\* lines 112-127: updatedObj after the fields from i on, acc its properties
RECURSIVE UpdatedFrom(_, _, _)
UpdatedFrom(fs, i, acc) ==
    IF i > Len(fs) THEN acc
    ELSE IF Falsy(fs[i].key) THEN UpdatedFrom(fs, i + 1, acc)
    ELSE UpdatedFrom(fs, i + 1, PairSet(acc, fs[i].key.v, Coerce(fs[i])))

UpdatedObj(fs) == Obj(UpdatedFrom(fs, 1, <<>>))

\* line 149: fields.some(f => f.key === k)
SomeFieldHasKey(fs, key) == \E i \in 1..Len(fs) : fs[i].key = Str(key)

\* the delete pass without the test that the value is primitive
KeysToDeleteAnyValue(target, fs) ==
    SelectSeq(ObjectKeys(target), LAMBDA key : ~SomeFieldHasKey(fs, key))

\* lines 145-151
KeysToDelete(target, fs) ==
    SelectSeq(ObjectKeys(target),
              LAMBDA key : /\ LET val == Get(target, key)
                              IN val.k = "null" \/ TypeOf(val) # "object"
                           /\ ~SomeFieldHasKey(fs, key))

RECURSIVE DeleteAll(_, _, _)
DeleteAll(target, keys, i) ==
    IF i > Len(keys) THEN target ELSE DeleteAll(Delete(target, keys[i]), keys, i + 1)

\* line 154: target[k] = updatedObj[k] for the keys of updatedObj from i on
RECURSIVE AssignAll(_, _, _)
AssignAll(target, pairs, i) ==
    IF i > Len(pairs) THEN target
    ELSE AssignAll(Set(target, pairs[i].key, pairs[i].val).val, pairs, i + 1)

\* lines 144-154: the target after the delete pass and the upsert pass
SyncTarget(target, fs) ==
    AssignAll(DeleteAll(target, KeysToDelete(target, fs), 1), UpdatedObj(fs).v, 1)

\* line 136
NotAnObject(target) == TypeOf(target) # "object" \/ target.k = "null"

\* lines 112-159: the new document text, or what is thrown
SyncFields(currentJson, path, fs) ==
    LET root == JSONparse(currentJson)
    IN IF root.st = "throw" THEN root
       ELSE LET target == Walk(root.val, path)
            IN IF target.st = "throw" THEN target
               ELSE IF NotAnObject(target.val)
               THEN ApplyEdit(currentJson, path, UpdatedObj(fs))
               ELSE Ok(JSONstringify(Rebuild(root.val, path, SyncTarget(target.val, fs))))

(***************************************************************************)
(* The modal: state, effect and handlers                                   *)
(***************************************************************************)
Row(key, value, type) == [key |-> key, value |-> value, type |-> type]
Field(key, value, type) == [key |-> key, value |-> value, type |-> type]
NoCall == [fn |-> "none"]
NoResult == [st |-> "none"]
NoNode == [sel |-> FALSE, text |-> <<>>, path |-> <<>>]
NoLast == [op |-> "other", out |-> "none", shown |-> ""]
DocMalformed == "{\"a\":"

IsPrimitiveRow(r) == r.type # "array" /\ r.type # "object"

\* lines 23-28: obj after the rows from i on
RECURSIVE NormalizedFrom(_, _, _)
NormalizedFrom(rows, i, acc) ==
    IF i > Len(rows) THEN acc
    ELSE IF IsPrimitiveRow(rows[i]) /\ ~Falsy(rows[i].key)
    THEN NormalizedFrom(rows, i + 1, PairSet(acc, rows[i].key.v, rows[i].value))
    ELSE NormalizedFrom(rows, i + 1, acc)

\* lines 11-30
NormalizeNodeData(rows) ==
    IF Len(rows) = 0 THEN "{}"
    ELSE IF Len(rows) = 1 /\ Falsy(rows[1].key) THEN JSONstringify(rows[1].value)
    ELSE JSONstringify(Obj(NormalizedFrom(rows, 1, <<>>)))

\* lines 57-64: the editable fields of the primitive rows
ProjectFields(rows) ==
    LET prims == SelectSeq(rows, IsPrimitiveRow)
    IN IF Len(prims) = 0 THEN <<>>
       ELSE IF Len(prims) = 1 /\ Falsy(prims[1].key)
       THEN <<Field(Null, StringOrEmpty(prims[1].value), prims[1].type)>>
       ELSE [i \in 1..Len(prims) |->
               Field(prims[i].key, StringOrEmpty(prims[i].value), prims[i].type)]

\* lines 50-65: the effect that runs when nodeData or opened changed
UseEffect(node) ==
    IF ~node.sel
    THEN UNCHANGED <<editing, error, editText, fields>>
    ELSE /\ editing' = FALSE
         /\ error' = Null
         /\ editText' = NormalizeNodeData(node.text)
         /\ fields' = ProjectFields(node.text)

\* line 107
HasKeys(rows) == \E i \in 1..Len(rows) : rows[i].key # Null

\* lines 163-169: JSON.parse(editText), the raw text if it does not parse
ParseOrRaw(text) ==
    LET r == JSONparse(text) IN IF r.st = "ok" THEN r.val ELSE Str(text)

\* lines 104-173: what the try block computes, or what it throws
SaveResult(currentJson, node, fs, text) ==
    IF HasKeys(node.text)
    THEN SyncFields(currentJson, node.path, fs)
    ELSE ApplyEdit(currentJson, node.path, ParseOrRaw(text))

\* the catch block forgets the message
SaveErrorDropped(r) == Null

\* lines 100, 175: the error state after handleSave
SaveError(r) == IF r.st = "throw" THEN Str(r.msg) ELSE Null

\* the text in the edit control that is rendered (lines 226-270)
ShownText == IF Len(fields) > 0 THEN fields[1].value ELSE editText

MaxSaves == 1
MaxFields == 2

DocModal == "{\"a\":{\"b\":1,\"c\":[1,2]},\"e\":{}}"
ModalDocs == {DocModal, DocMalformed}

NodeKeyed == [sel |-> TRUE, path |-> <<Str("a")>>,
              text |-> <<Row(Str("b"), Num(1), "number"),
                         Row(Str("c"), Str("[2 items]"), "array")>>]
NodeScalar == [sel |-> TRUE, path |-> <<Str("a"), Str("c"), Num(0)>>,
               text |-> <<Row(Null, Num(1), "number")>>]
NodeEmpty == [sel |-> TRUE, path |-> <<Str("e")>>, text |-> <<>>]
NodeStale == [sel |-> TRUE, path |-> <<Str("x"), Str("y")>>, text |-> <<>>]
Nodes == {NodeKeyed, NodeScalar, NodeEmpty, NodeStale}

InputTexts == {"7"}
KeyTexts == {"key2"}

Init ==
    /\ contents \in ModalDocs
    /\ nodeData = NoNode
    /\ opened = FALSE
    /\ editing = FALSE
    /\ editText = ""
    /\ fields = <<>>
    /\ error = Null
    /\ setCalls = 0
    /\ last = NoLast
    /\ call = NoCall
    /\ res = NoResult

\* whether the handler that ran last was Save, its outcome, and for Save the
\* text that was shown
Did(op, out) ==
    last' = [op |-> IF op = "save" THEN "save" ELSE "other", out |-> out,
             shown |-> IF op = "save" THEN ShownText ELSE ""]

\* the graph store selects another node
SelectNode ==
    \E n \in Nodes :
        /\ n # nodeData
        /\ nodeData' = n
        /\ UseEffect(n)
        /\ Did("select", "none")
        /\ UNCHANGED <<contents, opened, setCalls, call, res>>

\* the modal is shown
OpenModal ==
    /\ ~opened
    /\ opened' = TRUE
    /\ UseEffect(nodeData)
    /\ Did("open", "none")
    /\ UNCHANGED <<contents, nodeData, setCalls, call, res>>

\* the document changes outside the modal
ContentsChange ==
    \E d \in ModalDocs :
        /\ d # contents
        /\ contents' = d
        /\ Did("contents", "none")
        /\ UNCHANGED <<nodeData, opened, editing, editText, fields, error,
                       setCalls, call, res>>

\* line 197
ClickEdit ==
    /\ opened /\ ~editing
    /\ editing' = TRUE
    /\ Did("edit", "none")
    /\ UNCHANGED <<contents, nodeData, opened, editText, fields, error,
                   setCalls, call, res>>

\* line 203
ClickCancel ==
    /\ opened /\ editing
    /\ editing' = FALSE
    /\ Did("cancel", "none")
    /\ UNCHANGED <<contents, nodeData, opened, editText, fields, error,
                   setCalls, call, res>>

\* lines 67-71, then the effect of opened turning false
CloseAndReset ==
    /\ opened' = FALSE
    /\ IF nodeData.sel
       THEN UseEffect(nodeData)
       ELSE /\ editing' = FALSE
            /\ error' = Null
            /\ UNCHANGED <<editText, fields>>

\* line 211
ClickClose ==
    /\ opened
    /\ CloseAndReset
    /\ Did("close", "none")
    /\ UNCHANGED <<contents, nodeData, setCalls, call, res>>

\* lines 99-177; the number of committed saves is capped at MaxSaves
HandleSave ==
    IF ~nodeData.sel
    THEN /\ error' = Null
         /\ Did("save", "none")
         /\ UNCHANGED <<contents, opened, editing, editText, fields, setCalls>>
    ELSE \E r \in {SaveResult(contents, nodeData, fields, editText)} :
            IF r.st = "ok"
            THEN /\ setCalls < MaxSaves
                 /\ contents' = r.val
                 /\ setCalls' = setCalls + 1
                 /\ CloseAndReset
                 /\ Did("save", "ok")
            ELSE /\ error' = SaveError(r)
                 /\ Did("save", "caught")
                 /\ UNCHANGED <<contents, opened, editing, editText, fields, setCalls>>

\* line 206
ClickSave ==
    /\ opened /\ editing
    /\ HandleSave
    /\ UNCHANGED <<nodeData, call, res>>

\* lines 179-181, from the value inputs (lines 234, 249)
ChangeFieldValue ==
    \E i \in 1..Len(fields), t \in InputTexts :
        /\ opened /\ editing
        /\ fields' = [fields EXCEPT ![i].value = t]
        /\ Did("value", "none")
        /\ UNCHANGED <<contents, nodeData, opened, editing, editText, error,
                       setCalls, call, res>>

\* lines 179-181, from the key input of a keyed field (line 242)
ChangeFieldKey ==
    \E i \in 1..Len(fields), t \in KeyTexts :
        /\ opened /\ editing
        /\ fields[i].key # Null
        /\ fields' = [fields EXCEPT ![i].key = Str(t)]
        /\ Did("key", "none")
        /\ UNCHANGED <<contents, nodeData, opened, editing, editText, error,
                       setCalls, call, res>>

\* line 183; the button is rendered when there are fields (lines 226, 258)
AddField ==
    /\ opened /\ editing
    /\ Len(fields) > 0
    /\ Len(fields) < MaxFields
    /\ fields' = Append(fields,
                        Field(Str("key" \o NatToString(Len(fields) + 1)), "", "string"))
    /\ Did("add", "none")
    /\ UNCHANGED <<contents, nodeData, opened, editing, editText, error,
                   setCalls, call, res>>

\* line 185; the button is rendered for keyed fields (line 251)
RemoveField ==
    \E i \in 1..Len(fields) :
        /\ opened /\ editing
        /\ fields[i].key # Null
        /\ fields' = [j \in 1..(Len(fields) - 1) |->
                        IF j < i THEN fields[j] ELSE fields[j + 1]]
        /\ Did("remove", "none")
        /\ UNCHANGED <<contents, nodeData, opened, editing, editText, error,
                       setCalls, call, res>>

\* line 268; the textarea is rendered when there are no fields
ChangeEditText ==
    \E t \in InputTexts :
        /\ opened /\ editing
        /\ Len(fields) = 0
        /\ editText' = t
        /\ Did("text", "none")
        /\ UNCHANGED <<contents, nodeData, opened, editing, fields, error,
                       setCalls, call, res>>

Next ==
    \/ SelectNode
    \/ OpenModal
    \/ ContentsChange
    \/ ClickEdit
    \/ ClickCancel
    \/ ClickClose
    \/ ClickSave
    \/ ChangeFieldValue
    \/ ChangeFieldKey
    \/ AddField
    \/ RemoveField
    \/ ChangeEditText

Spec == Init /\ [][Next]_vars

(***************************************************************************)
(* Direct calls of applyEdit and of the keyed branch, on drawn inputs      *)
(***************************************************************************)
MaxPathLen == 3
MaxCallFields == 2

DocNested == "{\"a\":{\"b\":1,\"c\":[1,2]}}"
DocFields == "{\"a\":{\"b\":1,\"c\":\"keep\",\"d\":{\"e\":1}}}"
DocScalars == "{\"a\":null,\"b\":\"xy\",\"c\":5,\"\":2}"
DocArray == "[{\"b\":1},[7,8],\"s\"]"

CallDocs == {DocNested, DocFields, DocScalars, DocArray, DocMalformed}
CallSegs == {Str("a"), Str("b"), Str("c"), Str("x"), Num(0), Num(3)}
CallPaths == UNION {[1..n -> CallSegs] : n \in 0..MaxPathLen}
CallValues == {Num(99), Null, Obj(<<P("e", Arr(<<Num(2)>>))>>)}

CallFieldSet ==
    {Field(Str("b"), "99", "number"), Field(Str("b"), "", "number"),
     Field(Str("c"), " ", "number"), Field(Str("c"), "abc", "number"),
     Field(Str("d"), "TRUE", "boolean"), Field(Str("f"), "yes", "boolean"),
     Field(Str("f"), "x", "null"), Field(Str("0"), "-7", "string"),
     Field(Str(""), "1", "number"), Field(Null, "2", "number")}
CallFields == UNION {[1..n -> CallFieldSet] : n \in 0..MaxCallFields}
SyncPaths == {<<>>, <<Str("a")>>, <<Str("a"), Str("c")>>, <<Str("a"), Str("x")>>,
              <<Str("x"), Str("b")>>, <<Num(0)>>, <<Num(1)>>, <<Str("c")>>}



ModalIdle ==
    /\ contents = DocNested
    /\ nodeData = NoNode
    /\ opened = FALSE
    /\ editing = FALSE
    /\ editText = ""
    /\ fields = <<>>
    /\ error = Null
    /\ setCalls = 0
    /\ last = NoLast

InitEdit ==
    /\ ModalIdle
    /\ call \in [fn : {"applyEdit"}, doc : CallDocs, path : CallPaths, value : CallValues]
    /\ res = NoResult

CallApplyEdit ==
    /\ call.fn = "applyEdit"
    /\ res.st = "none"
    /\ res' = ApplyEdit(call.doc, call.path, call.value)
    /\ UNCHANGED <<call, modalVars>>

NextEdit == CallApplyEdit
SpecEdit == InitEdit /\ [][NextEdit]_vars

InitSync ==
    /\ ModalIdle
    /\ call \in [fn : {"syncFields"}, doc : CallDocs, path : SyncPaths, fields : CallFields]
    /\ res = NoResult

CallSyncFields ==
    /\ call.fn = "syncFields"
    /\ res.st = "none"
    /\ res' = SyncFields(call.doc, call.path, call.fields)
    /\ UNCHANGED <<call, modalVars>>

NextSync == CallSyncFields
SpecSync == InitSync /\ [][NextSync]_vars

(***************************************************************************)
(* Parsed documents compared by location                                   *)
(***************************************************************************)
IndexKeys(n) == {NatToString(i) : i \in 0..(n - 1)}

\* a JSON value as a tree: a container maps its keys to trees
RECURSIVE Tree(_)
Tree(x) ==
    CASE x.k = "object" ->
            [k |-> "object", m |-> [key \in {x.v[i].key : i \in 1..Len(x.v)} |->
                                      Tree(PairGet(x.v, key))]]
      [] x.k = "array" ->
            [k |-> "array", m |-> [key \in IndexKeys(Len(x.v)) |->
                                     Tree(x.v[IndexOf(key) + 1])]]
      [] OTHER -> x

TreeOfText(text) == Tree(JSONparse(text).val)
WellFormed(text) == JSONparse(text).st = "ok"
KeyPath(path) == [i \in 1..Len(path) |-> ToKey(path[i])]
IsNode(t) == t.k \in {"object", "array"}

\* the tree at a location, Undefined when the location does not exist
RECURSIVE At(_, _)
At(t, keys) ==
    IF keys = <<>> THEN t
    ELSE IF IsNode(t) /\ Head(keys) \in DOMAIN t.m THEN At(t.m[Head(keys)], Tail(keys))
    ELSE Undefined

\* the tree without the location
RECURSIVE Mask(_, _)
Mask(t, keys) ==
    IF keys = <<>> THEN [k |-> "masked"]
    ELSE IF IsNode(t) /\ Head(keys) \in DOMAIN t.m
    THEN IF Len(keys) = 1
         THEN [t EXCEPT !.m = [key \in DOMAIN t.m \ {Head(keys)} |-> t.m[key]]]
         ELSE [t EXCEPT !.m[Head(keys)] = Mask(t.m[Head(keys)], Tail(keys))]
    ELSE t

(***************************************************************************)
(* Properties of applyEdit (SpecEdit)                                     *)
(***************************************************************************)
EditIn == TreeOfText(call.doc)
EditOut == TreeOfText(res.val)
EditReturned == call.fn = "applyEdit" /\ res.st = "ok" /\ Len(call.path) > 0

\* C1: when applyEdit returns a document for a non-empty path, the parsed
\* result holds newValue at the addressed path and equals the parsed input
\* at every other location; the edit is never silently dropped.
C1_EditReplacesOnlyAddressed ==
    EditReturned =>
        /\ At(EditOut, KeyPath(call.path)) = Tree(call.value)
        /\ Mask(EditOut, KeyPath(call.path)) = Mask(EditIn, KeyPath(call.path))

\* some step of the walk over the segments before the last reaches undefined
UndefinedBeforeLast(doc, path) ==
    /\ WellFormed(doc)
    /\ \E n \in 1..(Len(path) - 1) :
          LET w == Walk(JSONparse(doc).val, SubSeq(path, 1, n))
          IN w.st = "ok" /\ TypeOf(w.val) = "undefined"

IsInvalidPath(r) == r.st = "throw" /\ r.kind = "Error" /\ r.msg = "Invalid path"

\* C2: applyEdit fails with InvalidPath whenever the walk over the segments
\* before the last reaches an undefined location at any step.
C2_UndefinedStepIsInvalidPath ==
    (call.fn = "applyEdit" /\ res.st # "none" /\ UndefinedBeforeLast(call.doc, call.path))
        => IsInvalidPath(res)

(***************************************************************************)
(* Properties of the keyed branch of handleSave (SpecSync)              *)
(***************************************************************************)
SyncCalled == call.fn = "syncFields" /\ res.st # "none"
SyncTargetIn == At(TreeOfText(call.doc), KeyPath(call.path))
SyncTargetOut == At(TreeOfText(res.val), KeyPath(call.path))
\* the call ran on a target that is a JSON object and returned a document
SyncOnObject ==
    /\ SyncCalled
    /\ WellFormed(call.doc)
    /\ SyncTargetIn.k = "object"
    /\ res.st = "ok"

\* the keys of the fields (null keys left out)
FieldKeys(fs) == {fs[i].key.v : i \in {j \in 1..Len(fs) : fs[j].key.k = "string"}}
Coerced(fs) == Tree(UpdatedObj(fs)).m
NestedKeys(t) == {key \in DOMAIN t.m : IsNode(t.m[key])}
PrimitiveKeys(t) == {key \in DOMAIN t.m : ~IsNode(t.m[key])}

\* C3: on an object target, every key whose existing value is an object or
\* array has the same value in the result, whatever the field list.
C3_NestedChildrenUntouched ==
    SyncOnObject =>
        \A key \in NestedKeys(SyncTargetIn) :
            /\ key \in DOMAIN SyncTargetOut.m
            /\ SyncTargetOut.m[key] = SyncTargetIn.m[key]

TargetNotObject ==
    /\ WellFormed(call.doc)
    /\ LET w == Walk(JSONparse(call.doc).val, call.path)
       IN w.st = "ok" /\ w.val.k \in {"null", "boolean", "number", "string", "array"}

\* C5: when the addressed location is a scalar, null or an array, the whole
\* location is replaced by the coerced mapping.
C5_NonObjectTargetReplaced ==
    (SyncCalled /\ TargetNotObject) =>
        /\ res.st = "ok"
        /\ SyncTargetOut = Tree(UpdatedObj(call.fields))
        /\ Mask(TreeOfText(res.val), KeyPath(call.path))
              = Mask(TreeOfText(call.doc), KeyPath(call.path))

\* some segment of the path, the last included, does not resolve
UnresolvedSegment(doc, path) ==
    /\ WellFormed(doc)
    /\ \E n \in 1..Len(path) :
          LET w == Walk(JSONparse(doc).val, SubSeq(path, 1, n))
          IN w.st = "ok" /\ TypeOf(w.val) = "undefined"

\* C6: when a segment of the path does not resolve in the document, the
\* keyed branch fails with InvalidPath and hands over no document text.
C6_UnresolvedPathFails ==
    (SyncCalled /\ UnresolvedSegment(call.doc, call.path)) => IsInvalidPath(res)

\* the text is an optionally signed run of digits, white space around it
ValidNumberText(s) ==
    LET i == SkipWs(s, 1)
        j == LastNonWs(s, Len(s))
        d == IF i <= j /\ Ch(s, i) \in {"-", "+"} THEN i + 1 ELSE i
    IN i <= j /\ d <= j /\ AllDigits(s, d, j)

\* the coercion as the specification states it
StatedCoercion(f) ==
    CASE f.type = "number" ->
            (IF ValidNumberText(f.value) THEN JSNumber(f.value) ELSE Str(f.value))
      [] f.type = "boolean" ->
            (IF ToLowerCase(f.value) \in {"true", "false"}
             THEN Bool(ToLowerCase(f.value) = "true") ELSE Str(f.value))
      [] f.type = "null" -> Null
      [] OTHER -> Str(f.value)

\* the last field with the key decides its value
LastWithKey(fs, key) ==
    fs[CHOOSE i \in 1..Len(fs) :
          /\ fs[i].key = Str(key)
          /\ \A j \in (i + 1)..Len(fs) : fs[j].key # Str(key)]

\* C9: every field with a non-empty key is coerced by its type (number: the
\* parsed number if the text is a valid number, else the raw text, also for
\* empty or blank text; boolean: case-insensitive true/false, else the raw
\* text; null: null; other: the text); fields with a null or empty key are
\* skipped; coercion never makes the save fail.
C9_CoercionAsStated ==
    SyncOnObject =>
        /\ \A key \in FieldKeys(call.fields) \ {""} :
              /\ key \in DOMAIN SyncTargetOut.m
              /\ SyncTargetOut.m[key] = Tree(StatedCoercion(LastWithKey(call.fields, key)))
        /\ \A key \in DOMAIN SyncTargetOut.m \ DOMAIN SyncTargetIn.m :
              key \in FieldKeys(call.fields) \ {""}

(***************************************************************************)
(* Properties of the modal (Spec)                                          *)
(***************************************************************************)
\* C7: the setter of the document store is called exactly once by each Save
\* that succeeds and by nothing else; a Save that fails is caught inside
\* handleSave, sets the error message and leaves edit mode open.
C7_SetterOncePerCommittedSave ==
    [][/\ setCalls' = setCalls + (IF last'.op = "save" /\ last'.out = "ok" THEN 1 ELSE 0)
       /\ (last'.op = "save" /\ last'.out # "ok") => contents' = contents
       /\ (last'.op = "save" /\ last'.out = "caught") =>
              /\ error'.k = "string"
              /\ error'.v # ""
              /\ editing'
              /\ opened']_vars

\* a Save failed after an earlier Save was committed
C7_Witness ==
    /\ setCalls = 1
    /\ last.op = "save"
    /\ last.out = "caught"
    /\ error.k = "string"
    /\ editing

\* C8: each time edit mode is entered the field list is the projection of
\* the selected node's primitive rows, so what was changed before a Cancel
\* is not written by a later Save.
C8_EditStartsFromProjection ==
    [][(~editing /\ editing') => fields' = ProjectFields(nodeData'.text)]_vars

IsScalarNode(node) == node.sel /\ Len(node.text) = 1 /\ node.text[1].key = Null

\* C10: for a node that is a single unkeyed scalar, a successful Save writes
\* at the node's path the value of the text shown in the edit input.
C10_SaveWritesShownText ==
    (last.op = "save" /\ last.out = "ok" /\ IsScalarNode(nodeData)) =>
        At(TreeOfText(contents), KeyPath(nodeData.path)) = Tree(ParseOrRaw(last.shown))

====
